---- MODULE Spec2Model ----
(***************************************************************************)
(* DatabaseClient of mcp-server-motherduck: connection lifecycle, query    *)
(* execution with timeout and result limits, and the switch tool.          *)
(*                                                                         *)
(* Locators are sequences of lexical pieces (<<"md:", "db">>,              *)
(* <<"/", "data.db">>), so that prefix tests are computed, not assumed.    *)
(* None is modelled by 0 for handles and by "" for optional strings.       *)
(***************************************************************************)
EXTENDS Integers, Sequences, FiniteSets, TLC

VARIABLES
    cfg,        \* constructor arguments kept by the client (self._max_rows, ...)
    phase,      \* "new" before __init__, "up" after it returned, "failed" if it raised
    db_path,    \* self.db_path
    db_type,    \* self.db_type
    read_only,  \* self._read_only
    conn,       \* self.conn: a handle id, or 0 for None
    handles,    \* every engine connection opened so far, by id
    files,      \* local database files that exist
    pc,         \* position of each caller thread inside query / execute_raw
    call,       \* local variables of the call each thread is running
    ret,        \* what the last call of each thread returned or raised
    timers,     \* threading.Timer objects, by the id of the call that started them
    ncalls,     \* number of tool calls started so far
    hits,       \* interrupts delivered to a running statement: <<timer's call, statement's call>>
    ctorErr,    \* the exception __init__ raised, NoError if none
    callers,    \* the threads that call into the client
    acq,        \* the last run of _initialize_connection: what it was given and did
    lim         \* the result under construction in _execute (row and char limits)

vars == <<cfg, phase, db_path, db_type, read_only, conn, handles, files,
          pc, call, ret, timers, ncalls, hits, ctorErr, callers, acq, lim>>

clientVars == <<phase, db_path, db_type, read_only, conn, handles, files,
                pc, call, ret, timers, ncalls, hits, ctorErr, callers, acq>>

----------------------------------------------------------------------------
(* Bounds of the model *)

\* tool calls (query, execute_raw, switch) started in one run
MaxCalls == 2
\* rows the engine can yield for one statement in the limits specification
MaxResultRows == 12

Threads == {"t1", "t2"}

----------------------------------------------------------------------------
(* Small helpers *)

Max(a, b) == IF a >= b THEN a ELSE b

Min(a, b) == IF a <= b THEN a ELSE b

\* seq[:k] of Python for any integer k
Take(seq, k) ==
    IF k >= 0 THEN SubSeq(seq, 1, Min(k, Len(seq)))
    ELSE SubSeq(seq, 1, Max(Len(seq) + k, 0))

RECURSIVE SumRange(_, _, _)
SumRange(s, lo, hi) ==
    IF lo > hi THEN 0
    ELSE IF lo = hi THEN s[lo]
    ELSE LET mid == (lo + hi) \div 2
         IN  SumRange(s, lo, mid) + SumRange(s, mid + 1, hi)

SumSeq(s) == SumRange(s, 1, Len(s))

RECURSIVE NumDigits(_)
NumDigits(n) == IF n < 10 THEN 1 ELSE 1 + NumDigits(n \div 10)

----------------------------------------------------------------------------
(* json.dumps(result, default=str): the length of the text it produces *)

\* f"{n:,}": decimal digits with a comma every three digits, "-" for a negative
FmtThousands(n) ==
    LET a == IF n < 0 THEN 0 - n ELSE n
        RECURSIVE Grp(_)
        Grp(m) == IF m < 1000 THEN ToString(m)
                  ELSE Grp(m \div 1000) \o ","
                       \o (IF m % 1000 < 10 THEN "00" ELSE IF m % 1000 < 100 THEN "0" ELSE "")
                       \o ToString(m % 1000)
    IN  (IF n < 0 THEN "-" ELSE "") \o Grp(a)

JsonIntLen(n) == IF n < 0 THEN 1 + NumDigits(0 - n) ELSE NumDigits(n)

JsonStrLen(s) == Len(s) + 2

\* a JSON array whose items have the given lengths: "[" a ", " b "]"
JsonListLen(itemLens) ==
    2 + SumSeq(itemLens) + 2 * Max(Len(itemLens) - 1, 0)

JsonRowLen(row) == JsonListLen([i \in 1..Len(row) |-> JsonIntLen(row[i])])

JsonRowsLen(rows) == JsonListLen([i \in 1..Len(rows) |-> JsonRowLen(rows[i])])

JsonStrListLen(ss) == JsonListLen([i \in 1..Len(ss) |-> JsonStrLen(ss[i])])

\* one "key": value member
JsonMemberLen(key, valueLen) == JsonStrLen(key) + 2 + valueLen

\* len(json.dumps(result)) for a success result; truncated and warning are
\* members only when the code has set them
JsonLen(result) ==
    LET members ==
            << JsonMemberLen("success", 4),
               JsonMemberLen("columns", JsonStrListLen(result.columns)),
               JsonMemberLen("columnTypes", JsonStrListLen(result.columnTypes)),
               JsonMemberLen("rows", JsonRowsLen(result.rows)),
               JsonMemberLen("rowCount", JsonIntLen(result.rowCount)) >>
            \o (IF result.truncated
                THEN << JsonMemberLen("truncated", 4),
                        JsonMemberLen("warning", JsonStrLen(result.warning)) >>
                ELSE << >>)
    IN  2 + SumSeq(members) + 2 * (Len(members) - 1)

----------------------------------------------------------------------------
(* Results of _execute_direct and _execute *)

\* what the engine hands back for a statement that ran: q.description and the
\* rows q.fetchmany can draw from
EngineResult(columns, types, rows) ==
    [columns |-> columns, types |-> types, rows |-> rows]

\* q.description of the statements modelled: one BIGINT column
LimColumns == <<"n">>

LimTypes == <<"BIGINT">>

\* q.fetchmany(size): at most size rows from the front of the result
Fetchmany(rows, size) == SubSeq(rows, 1, Min(Max(size, 0), Len(rows)))

ExecuteDirect_KeepsExtraRow(eng, max_rows) ==
    LET raw_rows == Fetchmany(eng.rows, max_rows + 1)
        has_more_rows == Len(raw_rows) > max_rows
    IN  [columns |-> eng.columns, column_types |-> eng.types,
         rows |-> raw_rows, has_more_rows |-> has_more_rows]

ExecuteDirect_NoFlag(eng, max_rows) ==
    LET raw_rows == Fetchmany(eng.rows, max_rows + 1)
    IN  [columns |-> eng.columns, column_types |-> eng.types,
         rows |-> Take(raw_rows, max_rows), has_more_rows |-> FALSE]

ExecuteDirect_FlagsAtLimit(eng, max_rows) ==
    LET raw_rows == Fetchmany(eng.rows, max_rows + 1)
        has_more_rows == Len(raw_rows) >= max_rows
    IN  [columns |-> eng.columns, column_types |-> eng.types,
         rows |-> IF has_more_rows THEN Take(raw_rows, max_rows) ELSE raw_rows,
         has_more_rows |-> has_more_rows]

\* _execute_direct after conn.execute(query) succeeded:
\* (columns, column_types, rows, has_more_rows)
ExecuteDirect(eng, max_rows) ==
    LET raw_rows == Fetchmany(eng.rows, max_rows + 1)
        has_more_rows == Len(raw_rows) > max_rows
    IN  [columns |-> eng.columns, column_types |-> eng.types,
         rows |-> IF has_more_rows THEN Take(raw_rows, max_rows) ELSE raw_rows,
         has_more_rows |-> has_more_rows]

RowLimitWarning(max_rows) ==
    "Results limited to " \o FmtThousands(max_rows) \o " rows. "
    \o "Query returned more data."

CharLimitWarning(nrows, max_chars) ==
    "Results limited to " \o FmtThousands(nrows) \o " rows due to "
    \o ToString(max_chars \div 1000) \o "KB output size limit."

\* the result dict of _execute before the character limit is looked at;
\* truncated = FALSE stands for "no truncated and no warning key"
BuildResult(d, max_rows) ==
    [success |-> TRUE,
     columns |-> d.columns,
     columnTypes |-> d.column_types,
     rows |-> d.rows,
     rowCount |-> Len(d.rows),
     truncated |-> d.has_more_rows,
     warning |-> IF d.has_more_rows THEN RowLimitWarning(max_rows) ELSE ""]

NeedsShrink_RowsOnly(result, max_chars) ==
    result.rows # <<>> /\ JsonRowsLen(result.rows) > max_chars

NeedsShrink_NoRowsTest(result, max_chars) == JsonLen(result) > max_chars

\* the loop condition: while rows and len(json_output) > self._max_chars
NeedsShrink(result, max_chars) ==
    result.rows # <<>> /\ JsonLen(result) > max_chars

ShrinkStep_Ceil(result, max_chars) ==
    LET remove_count == (Len(result.rows) + 9) \div 10
        rows == Take(result.rows, 0 - remove_count)
    IN  [result EXCEPT !.rows = rows,
                       !.rowCount = Len(rows),
                       !.truncated = TRUE,
                       !.warning = CharLimitWarning(Len(rows), max_chars)]

ShrinkStep_Fails(result, max_chars) ==
    [result EXCEPT !.success = FALSE, !.rows = <<>>, !.rowCount = 0]

ShrinkStep_KeepsWarning(result, max_chars) ==
    LET remove_count == Max(1, Len(result.rows) \div 10)
        rows == Take(result.rows, 0 - remove_count)
    IN  [result EXCEPT !.rows = rows,
                       !.rowCount = Len(rows),
                       !.truncated = TRUE,
                       !.warning = IF result.warning # "" THEN result.warning
                                   ELSE CharLimitWarning(Len(rows), max_chars)]

ShrinkStep_StaleRowCount(result, max_chars) ==
    LET remove_count == Max(1, Len(result.rows) \div 10)
        rows == Take(result.rows, 0 - remove_count)
    IN  [result EXCEPT !.rows = rows,
                       !.truncated = TRUE,
                       !.warning = CharLimitWarning(Len(rows), max_chars)]

\* one iteration of the loop
ShrinkStep(result, max_chars) ==
    LET remove_count == Max(1, Len(result.rows) \div 10)
        rows == Take(result.rows, 0 - remove_count)
    IN  [result EXCEPT !.rows = rows,
                       !.rowCount = Len(rows),
                       !.truncated = TRUE,
                       !.warning = CharLimitWarning(Len(rows), max_chars)]

RECURSIVE Shrink(_, _)
Shrink(result, max_chars) ==
    IF NeedsShrink(result, max_chars)
    THEN Shrink(ShrinkStep(result, max_chars), max_chars)
    ELSE result

\* the value _execute returns when the statement ran
ExecuteResult(eng, max_rows, max_chars) ==
    Shrink(BuildResult(ExecuteDirect(eng, max_rows), max_rows), max_chars)

\* no result is under construction
LimIdle == [pc |-> "idle", yielded |-> 0, iters |-> 0, before |-> 0,
            result |-> BuildResult(ExecuteDirect(EngineResult(<<>>, <<>>, <<>>), 0), 0)]

----------------------------------------------------------------------------
(* Locators and _resolve_db_path_type *)

MemoryPath == <<":memory:">>

DataFile == <<"/", "data.db">>

NewFile == <<"/", "new.db">>

RelativeFile == <<"rel.db">>

MdPath == <<"md:", "db">>

MotherduckPath == <<"motherduck:", "db">>

S3Path == <<"s3://", "bucket/x.db">>

\* path.startswith(prefix), for the prefixes the code tests
StartsWith(path, prefix) == Len(path) >= 1 /\ path[1] = prefix

\* os.path.isabs on POSIX
IsAbs(path) == StartsWith(path, "/")

ValueError == "ValueError"

\* the message of lines 273-275, without its backquotes
TokenMissingMessage ==
    "Please set the motherduck_token as an environment variable or pass it as an argument with --motherduck-token when using md: as db_path."

\* _resolve_db_path_type(db_path, motherduck_token, saas_mode); env_token is
\* os.getenv("motherduck_token"); "" stands for None
ResolveDbPathType(path, token, saas_mode, env_token) ==
    IF StartsWith(path, "s3://")
    THEN [err |-> "", path |-> path, type |-> "s3"]
    ELSE IF StartsWith(path, "md:")
    THEN IF token # ""
         THEN IF saas_mode
              THEN [err |-> "", type |-> "motherduck",
                    path |-> path \o <<"?motherduck_token=", token, "&saas_mode=true">>]
              ELSE [err |-> "", type |-> "motherduck",
                    path |-> path \o <<"?motherduck_token=", token>>]
         ELSE IF env_token # ""
              THEN [err |-> "", type |-> "motherduck",
                    path |-> path \o <<"?motherduck_token=", env_token>>]
              ELSE [err |-> TokenMissingMessage, path |-> path, type |-> ""]
    ELSE [err |-> "", path |-> path, type |-> "duckdb"]

----------------------------------------------------------------------------
(* Engine connections *)

\* a connection just returned by duckdb.connect; owner is the call that opened
\* it for its own statement, 0 when _initialize_connection opened it; log is
\* what the client has run on it to set it up, in order
NewHandle(path, ro, owner) ==
    [path |-> path, ro |-> ro, open |-> TRUE, owner |-> owner,
     secured |-> FALSE, inited |-> FALSE, verified |-> FALSE,
     attach |-> "none", duckling |-> <<>>,
     serving |-> 0, interrupted |-> FALSE, log |-> <<>>]

\* conn.execute(stmt) of the set-up ran on h, or raised ("... failed")
Ran(h, stmt) == [h EXCEPT !.log = Append(@, stmt)]

\* what the engine connects to for a path: the motherduck extension takes both
\* prefixes, everything else but ":memory:" is a file
EngineIsFile(path) ==
    /\ path # MemoryPath
    /\ ~StartsWith(path, "md:")
    /\ ~StartsWith(path, "motherduck:")
    /\ ~StartsWith(path, "s3://")

\* duckdb.connect(path, read_only=ro) raises: the injected fault, a file that
\* is not there and may not be created, or an in-memory database asked for
\* read-only (the limitation the switch tool warns about)
ConnectFails(fs, path, ro, fault) ==
    \/ fault = "connect"
    \/ (EngineIsFile(path) /\ ro /\ path \notin fs)
    \/ (path = MemoryPath /\ ro)

\* files after a successful duckdb.connect: a writable connect creates the file
FilesAfterConnect(fs, path, ro) ==
    IF EngineIsFile(path) /\ ~ro THEN fs \cup {path} ELSE fs

Digits == {"0", "1", "2", "3", "4", "5", "6", "7", "8", "9"}

IsReadScalingId_AnySuffix(id) ==
    \E k \in 1..Len(id) :
        /\ k + 3 <= Len(id)
        /\ id[k] = "." /\ id[k + 1] = "r" /\ id[k + 2] = "s" /\ id[k + 3] = "."

\* re.search(r"\.rs\.\d+$", duckling_id)
IsReadScalingId(id) ==
    \E k \in 1..Len(id) :
        /\ k + 4 <= Len(id)
        /\ id[k] = "." /\ id[k + 1] = "r" /\ id[k + 2] = "s" /\ id[k + 3] = "."
        /\ \A j \in (k + 4)..Len(id) : id[j] \in Digits

\* _is_read_scaling_connection(conn): probe is what SELECT * FROM
\* __md_duckling_id() does on this session
IsReadScalingConnection(duckling, probe) ==
    IF probe = "raises" THEN FALSE
    ELSE IF duckling = <<>> THEN FALSE
    ELSE IsReadScalingId(duckling)

ReadScalingMessage ==
    "The --read-only flag with MotherDuck requires a read-scaling token. You appear to be using a read/write token. Please use a read-scaling token instead. See: https://motherduck.com/docs/key-tasks/authenticating-and-connecting-to-motherduck/"

InitSqlMessage == "Init SQL execution failed: "

\* session ids the managed cloud hands out
DucklingIds ==
    { <<"m", ".", "r", "s", ".", "3">>,
      <<"m", ".", "r", "w">>,
      <<"m", ".", "r", "s", ".">>,
      <<>> }

Env(fault, attach, duckling, idprobe) ==
    [fault |-> fault, attach |-> attach, duckling |-> duckling, idprobe |-> idprobe]

\* what the engine and the environment can do during one acquisition of a
\* target of the given type: which step raises, how ATTACH ends, and for
\* MotherDuck the session that is given and whether the id probe works
EnvsFor(type) ==
    IF type = "s3"
    THEN { Env(f, "ok", <<>>, "ok") : f \in {"none", "connect", "load", "security", "init"} }
         \cup { Env(f, "missing", <<>>, "ok") : f \in {"none", "create", "security", "init"} }
         \cup { Env("none", "other", <<>>, "ok") }
    ELSE IF type = "motherduck"
    THEN { Env(f, "ok", d, "ok") : f \in {"none", "security", "init"}, d \in DucklingIds }
         \cup { Env("none", "ok", d, "raises") : d \in {<<"m", ".", "r", "s", ".", "3">>} }
         \cup { Env("connect", "ok", <<>>, "ok") }
    ELSE { Env(f, "ok", <<>>, "ok") : f \in {"none", "connect", "probe", "security", "init"} }

----------------------------------------------------------------------------
(* _initialize_connection *)

\* the class of the exceptions the engine raises (duckdb.Error and below)
EngineError == "duckdb.Error"

NoError == [type |-> "", msg |-> ""]

\* what _initialize_connection leaves behind: the connections opened so far,
\* the files, the handle id it returned (0 for None) and the exception it
\* raised (NoError when it returned)
Acquired(hs, fs, id, errType, msg) ==
    [handles |-> hs, files |-> fs, conn |-> id,
     err |-> [type |-> errType, msg |-> msg]]

\* the settings reach the connections the client keeps, not the ones a call
\* opens for itself
ApplySecuritySettings_KeptConnectionsOnly(h, secure_mode) ==
    IF secure_mode /\ h.owner = 0 THEN Ran([h EXCEPT !.secured = TRUE], "SET") ELSE h

\* _apply_security_settings(conn)
ApplySecuritySettings(h, secure_mode) ==
    IF secure_mode THEN Ran([h EXCEPT !.secured = TRUE], "SET") ELSE h

\* _execute_init_sql(conn)
ExecuteInitSql(h, init_sql) ==
    IF init_sql THEN Ran([h EXCEPT !.inited = TRUE], "init_sql") ELSE h

\* one of the SET statements of _apply_security_settings raises
SecurityFails(c, env) == c.secure_mode /\ env.fault = "security"

\* conn.execute(sql_content) of _execute_init_sql raises
InitSqlFails(c, env) == c.init_sql /\ env.fault = "init"

SecureAndInit_InitFailureIgnored(c, hs, fs, h, env) ==
    IF SecurityFails(c, env)
    THEN Acquired(Append(hs, Ran(h, "SET failed")), fs, 0, EngineError, "SET failed")
    ELSE IF InitSqlFails(c, env)
    THEN Acquired(Append(hs, Ran(ApplySecuritySettings(h, c.secure_mode),
                                 "init_sql failed")),
                  fs, Len(hs) + 1, "", "")
    ELSE Acquired(Append(hs, ExecuteInitSql(ApplySecuritySettings(h, c.secure_mode),
                                            c.init_sql)),
                  fs, Len(hs) + 1, "", "")

SecureAndInit_Neither(c, hs, fs, h, env) ==
    Acquired(Append(hs, h), fs, Len(hs) + 1, "", "")

\* the end of every persistent branch:
\*   self._apply_security_settings(conn); self._execute_init_sql(conn); return conn
SecureAndInit(c, hs, fs, h, env) ==
    IF SecurityFails(c, env)
    THEN Acquired(Append(hs, Ran(h, "SET failed")), fs, 0, EngineError, "SET failed")
    ELSE IF InitSqlFails(c, env)
    THEN Acquired(Append(hs, Ran(ApplySecuritySettings(h, c.secure_mode),
                                 "init_sql failed")),
                  fs, 0, ValueError, InitSqlMessage)
    ELSE Acquired(Append(hs, ExecuteInitSql(ApplySecuritySettings(h, c.secure_mode),
                                            c.init_sql)),
                  fs, Len(hs) + 1, "", "")

\* lines 190-205: a MotherDuck connection opened with --read-only must be a
\* read-scaling one, else it is closed and ValueError raised
VerifyReadScaling(c, hs, fs, h, env) ==
    LET probed == Ran(h, IF env.idprobe = "raises" THEN "__md_duckling_id failed"
                         ELSE "__md_duckling_id")
    IN  IF ~IsReadScalingConnection(env.duckling, env.idprobe)
        THEN Acquired(Append(hs, [probed EXCEPT !.open = FALSE]), fs, 0,
                      ValueError, ReadScalingMessage)
        ELSE SecureAndInit(c, hs, fs, [probed EXCEPT !.verified = TRUE], env)

\* lines 75-102: a read-only local file
InitLocalReadOnly(c, hs, fs, path, ro, env) ==
    LET h == NewHandle(path, ro, 0)
    IN  IF ConnectFails(fs, path, ro, env.fault)
        THEN Acquired(hs, fs, 0, EngineError, "connect failed")
        ELSE IF env.fault = "probe"
        THEN Acquired(Append(hs, Ran(h, "SELECT 1 failed")), fs, 0,
                      EngineError, "SELECT 1 failed")
        ELSE IF c.ephemeral_connections
        THEN Acquired(Append(hs, [Ran(h, "SELECT 1") EXCEPT !.open = FALSE]), fs, 0, "", "")
        ELSE SecureAndInit(c, hs, fs, Ran(h, "SELECT 1"), env)

InitS3_CreatesWhenReadOnly(c, hs, fs, path, ro, env) ==
    LET h == NewHandle(path, FALSE, 0)
        loaded == Ran(h, "LOAD httpfs")
        refused == Ran(loaded, IF env.attach = "missing"
                               THEN "ATTACH READ_ONLY failed: database does not exist"
                               ELSE "ATTACH READ_ONLY failed")
    IN  IF env.fault = "connect"
        THEN Acquired(hs, fs, 0, EngineError, "connect failed")
        ELSE IF env.fault = "load"
        THEN Acquired(Append(hs, Ran(h, "LOAD httpfs failed")), fs, 0,
                      EngineError, "LOAD httpfs failed")
        ELSE IF env.attach = "ok"
        THEN SecureAndInit(c, hs, fs,
                           [Ran(loaded, "ATTACH READ_ONLY") EXCEPT !.attach = "ro"], env)
        ELSE IF env.attach = "missing"
        THEN IF env.fault = "create"
             THEN Acquired(Append(hs, Ran(refused, "ATTACH failed")), fs, 0,
                           EngineError, "ATTACH failed")
             ELSE SecureAndInit(c, hs, fs,
                                [Ran(refused, "ATTACH") EXCEPT !.attach = "rw"], env)
        ELSE Acquired(Append(hs, refused), fs, 0, EngineError,
                      IF env.attach = "missing" THEN "database does not exist"
                      ELSE "ATTACH failed")

\* lines 104-177: an in-memory connection with the s3 database attached; the
\* handle keeps the target as its path and how it is attached
InitS3(c, hs, fs, path, ro, env) ==
    LET h == NewHandle(path, FALSE, 0)
        loaded == Ran(h, "LOAD httpfs")
        refused == Ran(loaded, IF env.attach = "missing"
                               THEN "ATTACH READ_ONLY failed: database does not exist"
                               ELSE "ATTACH READ_ONLY failed")
    IN  IF env.fault = "connect"
        THEN Acquired(hs, fs, 0, EngineError, "connect failed")
        ELSE IF env.fault = "load"
        THEN Acquired(Append(hs, Ran(h, "LOAD httpfs failed")), fs, 0,
                      EngineError, "LOAD httpfs failed")
        ELSE IF env.attach = "ok"
        THEN SecureAndInit(c, hs, fs,
                           [Ran(loaded, "ATTACH READ_ONLY") EXCEPT !.attach = "ro"], env)
        ELSE IF env.attach = "missing" /\ ~ro
        THEN IF env.fault = "create"
             THEN Acquired(Append(hs, Ran(refused, "ATTACH failed")), fs, 0,
                           EngineError, "ATTACH failed")
             ELSE SecureAndInit(c, hs, fs,
                                [Ran(refused, "ATTACH") EXCEPT !.attach = "rw"], env)
        ELSE Acquired(Append(hs, refused), fs, 0, EngineError,
                      IF env.attach = "missing" THEN "database does not exist"
                      ELSE "ATTACH failed")

\* lines 179-205: MotherDuck, in-memory and writable local files
InitDefault(c, hs, fs, path, type, ro, env) ==
    LET read_only_flag == IF type = "motherduck" THEN ro ELSE FALSE
        h == [NewHandle(path, read_only_flag, 0) EXCEPT
                 !.duckling = IF type = "motherduck" THEN env.duckling ELSE <<>>]
        fs2 == FilesAfterConnect(fs, path, read_only_flag)
    IN  IF ConnectFails(fs, path, read_only_flag, env.fault)
        THEN Acquired(hs, fs, 0, EngineError, "connect failed")
        ELSE IF type = "motherduck" /\ ro
        THEN VerifyReadScaling(c, hs, fs2, h, env)
        ELSE SecureAndInit(c, hs, fs2, h, env)

\* _initialize_connection with self.db_path = path, self.db_type = type and
\* self._read_only = ro
InitializeConnection(c, hs, fs, path, type, ro, env) ==
    LET is_local_file == type = "duckdb" /\ path # MemoryPath
    IN  IF is_local_file /\ ro THEN InitLocalReadOnly(c, hs, fs, path, ro, env)
        ELSE IF type = "s3" THEN InitS3(c, hs, fs, path, ro, env)
        ELSE InitDefault(c, hs, fs, path, type, ro, env)

----------------------------------------------------------------------------
(* Calls: query, execute_raw and their results *)

\* what a thread keeps of the call it is in: the connection it works on, and
\* for a switch the path, the mode and the previous path it was entered with
NoCall ==
    [id |-> 0, op |-> "", conn |-> 0,
     arg |-> <<>>, ro |-> FALSE, previous |-> <<>>]

NoTimer == [st |-> "none", handle |-> 0, finished |-> FALSE]

NoSwitch == [previous |-> <<>>, current |-> <<>>, readOnly |-> FALSE, warning |-> ""]

EmptyResult ==
    [success |-> FALSE, columns |-> <<>>, columnTypes |-> <<>>, rows |-> <<>>,
     rowCount |-> 0, truncated |-> FALSE, warning |-> ""]

NoRet ==
    [call |-> 0, op |-> "", kind |-> "none", success |-> FALSE,
     error |-> "", errorType |-> "", result |-> EmptyResult, handle |-> 0,
     switch |-> NoSwitch, engine |-> "", arg |-> <<>>,
     databases |-> <<>>, databaseCount |-> 0]

\* the rows a statement reads on a connection to the given target
TargetRows(path) ==
    IF path = DataFile THEN << <<1>>, <<2>>, <<3>> >>
    ELSE IF StartsWith(path, "md:") \/ StartsWith(path, "motherduck:") THEN << <<7>> >>
    ELSE IF StartsWith(path, "s3://") THEN << <<8>>, <<9>> >>
    ELSE << >>

TimeoutMessage(seconds) ==
    "Query execution timed out after " \o ToString(seconds) \o " seconds. "
    \o "Increase timeout with --query-timeout argument when starting the mcp server."

\* an exception, or a value when type = ""
Raise(type, msg) == [type |-> type, msg |-> msg, result |-> EmptyResult]

Value(result) == [type |-> "", msg |-> "", result |-> result]

\* the exception conn.execute raises for what happened in the engine
EngineException(happened) ==
    IF happened = "interrupt" THEN Raise("InterruptException", "INTERRUPT Error: Interrupted!")
    ELSE Raise(EngineError, "engine error")

ExecuteWithTimeout_NoTranslation(c, path, happened) ==
    IF happened = "ok"
    THEN Value(ExecuteResult(EngineResult(LimColumns, LimTypes, TargetRows(path)),
                             c.max_rows, c.max_chars))
    ELSE EngineException(happened)

\* lines 297-337 through _execute_with_timeout: the try / except
\* duckdb.InterruptException around _execute_direct, then the result dict
ExecuteWithTimeout(c, path, happened) ==
    IF happened = "ok"
    THEN Value(ExecuteResult(EngineResult(LimColumns, LimTypes, TargetRows(path)),
                             c.max_rows, c.max_chars))
    ELSE IF happened = "interrupt"
    THEN Raise(ValueError, TimeoutMessage(c.query_timeout))
    ELSE EngineException(happened)

\* lines 297-337 through _execute_direct alone (no timeout configured)
ExecuteWithoutTimeout(c, path, happened) ==
    IF happened = "ok"
    THEN Value(ExecuteResult(EngineResult(LimColumns, LimTypes, TargetRows(path)),
                             c.max_rows, c.max_chars))
    ELSE EngineException(happened)

\* lines 413-418 of execute_raw: q.fetchall(), no limits
ExecuteRawBody(path, happened) ==
    IF happened = "ok"
    THEN Value([success |-> TRUE, columns |-> LimColumns, columnTypes |-> LimTypes,
                rows |-> TargetRows(path), rowCount |-> Len(TargetRows(path)),
                truncated |-> FALSE, warning |-> ""])
    ELSE EngineException(happened)

Query_CatchesAll(id, hid, out) ==
    IF out.type = ""
    THEN [NoRet EXCEPT !.call = id, !.op = "query", !.kind = "returned",
                       !.success = TRUE, !.result = out.result, !.handle = hid]
    ELSE [NoRet EXCEPT !.call = id, !.op = "query", !.kind = "returned",
                       !.error = out.msg, !.errorType = out.type, !.handle = hid]

\* query(): return self._execute(query); except ValueError: raise;
\* except Exception as e: return {"success": False, ...}
Query(id, hid, out) ==
    IF out.type = ""
    THEN [NoRet EXCEPT !.call = id, !.op = "query", !.kind = "returned",
                       !.success = TRUE, !.result = out.result, !.handle = hid]
    ELSE IF out.type = ValueError
    THEN [NoRet EXCEPT !.call = id, !.op = "query", !.kind = "raised",
                       !.error = out.msg, !.errorType = out.type, !.handle = hid]
    ELSE [NoRet EXCEPT !.call = id, !.op = "query", !.kind = "returned",
                       !.error = out.msg, !.errorType = out.type, !.handle = hid]

\* execute_raw has no except clause: every exception leaves it
ExecuteRaw(id, hid, out) ==
    IF out.type = ""
    THEN [NoRet EXCEPT !.call = id, !.op = "raw", !.kind = "returned",
                       !.success = TRUE, !.result = out.result, !.handle = hid]
    ELSE [NoRet EXCEPT !.call = id, !.op = "raw", !.kind = "raised",
                       !.error = out.msg, !.errorType = out.type, !.handle = hid]

\* what the caller of op gets for the outcome of its body
Return(op, id, hid, out) ==
    IF op = "query" THEN Query(id, hid, out) ELSE ExecuteRaw(id, hid, out)

----------------------------------------------------------------------------
(* The switch tool and switch_database *)

\* _is_local_file_path(path)
IsLocalFilePath(path) ==
    /\ path # MemoryPath
    /\ ~(StartsWith(path, "md:") \/ StartsWith(path, "motherduck:"))
    /\ ~StartsWith(path, "s3://")

\* the locator as one string
RECURSIVE PathText(_)
PathText(path) == IF path = <<>> THEN "" ELSE Head(path) \o PathText(Tail(path))

RelativePathMessage(path) ==
    "Relative paths are not allowed. Please use an absolute path. Got: " \o PathText(path)

ValidatePath_AllowsRelative(path) == ""

\* _validate_path(path): "" for None, else the error message
ValidatePath(path) ==
    IF ~IsLocalFilePath(path) THEN ""
    ELSE IF ~IsAbs(path) THEN RelativePathMessage(path)
    ELSE ""

\* lines 446-454 of switch_database
SwitchDbType(path) ==
    IF StartsWith(path, "md:") \/ StartsWith(path, "motherduck:") THEN "motherduck"
    ELSE IF StartsWith(path, "s3://") THEN "s3"
    ELSE IF path = MemoryPath THEN "memory"
    ELSE "duckdb"

CloseExisting_Skipped(hs, cn) == hs

\* lines 434-440 of switch_database: close the existing connection
CloseExisting(hs, cn) ==
    IF cn # 0 THEN [hs EXCEPT ![cn].open = FALSE] ELSE hs

\* switch_database(path, read_only): the client afterwards; conn stays None
\* when _initialize_connection raises
SwitchDatabase(c, hs, fs, cn, path, ro, env) ==
    LET type == SwitchDbType(path)
        a == InitializeConnection(c, CloseExisting(hs, cn), fs, path, type, ro, env)
    IN  [db_path |-> path, read_only |-> ro, db_type |-> type,
         handles |-> a.handles, files |-> a.files, conn |-> a.conn, err |-> a.err]

InMemoryWarning == "In-memory databases cannot be read-only (DuckDB limitation)"

FileMissingMessage(path) ==
    "Database file does not exist: " \o PathText(path)
    \o ". Set create_if_not_exists=True to create a new database."

CreateRefusedMessage == "Cannot create new database file in read-only mode. The server must be started with --read-write to create databases."

EffectiveReadOnly_FollowsServer(path, server_read_only) == server_read_only

\* lines 96-106 of the tool: the mode the new target is opened in
EffectiveReadOnly(path, server_read_only) ==
    IF path = MemoryPath THEN FALSE ELSE server_read_only

\* lines 96-106 of the tool: the warning of the response, "" for None
SwitchWarning(path, server_read_only) ==
    IF path = MemoryPath /\ server_read_only THEN InMemoryWarning ELSE ""

SwitchFailure_Raises(id, path, errorType, error) ==
    [NoRet EXCEPT !.call = id, !.op = "switch", !.kind = "raised", !.arg = path,
                  !.error = error, !.errorType = errorType]

\* a {"success": False, "error": ..., "errorType": ...} payload of the tool
SwitchFailure(id, path, errorType, error) ==
    [NoRet EXCEPT !.call = id, !.op = "switch", !.kind = "returned", !.arg = path,
                  !.error = error, !.errorType = errorType]

SwitchSuccess(id, path, previous, ro, warning) ==
    [NoRet EXCEPT !.call = id, !.op = "switch", !.kind = "returned", !.arg = path,
                  !.success = TRUE,
                  !.switch = [previous |-> previous, current |-> path,
                              readOnly |-> ro, warning |-> warning]]

SwitchRefusal_CreatesWhenReadOnly(path, fs, server_read_only, create_if_not_exists) ==
    IF ValidatePath(path) # "" THEN "ValueError"
    ELSE IF IsLocalFilePath(path) /\ path \notin fs /\ ~create_if_not_exists
    THEN "FileNotFoundError"
    ELSE ""

\* lines 68-94 of the tool: the checks made before anything is touched;
\* "" when the switch may go on
SwitchRefusal(path, fs, server_read_only, create_if_not_exists) ==
    IF ValidatePath(path) # "" THEN "ValueError"
    ELSE IF IsLocalFilePath(path) /\ path \notin fs /\ ~create_if_not_exists
    THEN "FileNotFoundError"
    ELSE IF IsLocalFilePath(path) /\ path \notin fs /\ server_read_only
    THEN "PermissionError"
    ELSE ""

SwitchRefusalMessage(errorType, path) ==
    IF errorType = "ValueError" THEN ValidatePath(path)
    ELSE IF errorType = "FileNotFoundError" THEN FileMissingMessage(path)
    ELSE CreateRefusedMessage

----------------------------------------------------------------------------
(* The client: construction, calls, timers, switch *)

NoAcq ==
    [path |-> <<>>, type |-> "", ro |-> FALSE, opened |-> 0, conn |-> 0,
     err |-> NoError, duckling |-> <<>>, idprobe |-> "ok"]

\* the record of one run of _initialize_connection: a is what it left behind,
\* n the number of connections that existed before
AcqRecord(path, type, ro, env, n, a) ==
    [path |-> path, type |-> type, ro |-> ro,
     duckling |-> env.duckling, idprobe |-> env.idprobe,
     opened |-> IF Len(a.handles) > n THEN Len(a.handles) ELSE 0,
     conn |-> a.conn, err |-> a.err]

StartPaths == {MemoryPath, DataFile, MdPath, MotherduckPath, S3Path}

SwitchPaths == {MemoryPath, DataFile, NewFile, RelativeFile, MdPath, MotherduckPath, S3Path}

TimeoutValues == {-1, 0, 2}

\* the two prefixes the client takes for a MotherDuck path (switch_database,
\* the switch tool)
CloudPrefixed(path) == StartsWith(path, "md:") \/ StartsWith(path, "motherduck:")

\* the constructor arguments of the lifecycle specification: no query timeout;
\* a token argument, a token in the environment and saas_mode are given (or
\* not) only for MotherDuck paths
Configs ==
    { c \in [max_rows : {1024}, max_chars : {50000}, query_timeout : {-1},
             secure_mode : BOOLEAN, init_sql : BOOLEAN, ephemeral_connections : BOOLEAN,
             arg_path : StartPaths, arg_read_only : BOOLEAN,
             token : {"", "tok"}, env_token : {"", "envtok"}, saas_mode : BOOLEAN] :
        ~CloudPrefixed(c.arg_path) => (c.token = "" /\ c.env_token = "" /\ ~c.saas_mode) }

\* the state before DatabaseClient(...) is called with arguments c, the
\* threads in who being the ones that will call the client
BeforeInit(c, who) ==
    /\ cfg = c
    /\ callers = who
    /\ phase = "new"
    /\ db_path = <<>>
    /\ db_type = ""
    /\ read_only = c.arg_read_only
    /\ conn = 0
    /\ handles = <<>>
    /\ files = {DataFile}
    /\ pc = [t \in Threads |-> "idle"]
    /\ call = [t \in Threads |-> NoCall]
    /\ ret = [t \in Threads |-> NoRet]
    /\ timers = [k \in 1..MaxCalls |-> NoTimer]
    /\ ncalls = 0
    /\ hits = {}
    /\ ctorErr = NoError
    /\ acq = NoAcq
    /\ lim = LimIdle

Init == \E c \in Configs : BeforeInit(c, {"t1"})

\* DatabaseClient.__init__: resolve the path, then self.conn =
\* self._initialize_connection(); an exception leaves no client
Construct ==
    /\ phase = "new"
    /\ LET r == ResolveDbPathType(cfg.arg_path, cfg.token, cfg.saas_mode, cfg.env_token)
       IN  IF r.err # ""
           THEN /\ phase' = "failed"
                /\ ctorErr' = [type |-> ValueError, msg |-> r.err]
                /\ UNCHANGED <<db_path, db_type, conn, handles, files, acq>>
           ELSE \E env \in EnvsFor(r.type) :
                  \E a \in {InitializeConnection(cfg, handles, files, r.path, r.type,
                                                 cfg.arg_read_only, env)} :
                      /\ db_path' = r.path
                      /\ db_type' = r.type
                      /\ handles' = a.handles
                      /\ files' = a.files
                      /\ conn' = a.conn
                      /\ acq' = AcqRecord(r.path, r.type, cfg.arg_read_only, env,
                                          Len(handles), a)
                      /\ ctorErr' = a.err
                      /\ phase' = IF a.err = NoError THEN "up" ELSE "failed"
    /\ UNCHANGED <<cfg, callers, read_only, pc, call, ret, timers, ncalls, hits, lim>>

\* the call of thread t is over: ret is what its caller gets
Finish(t, r) ==
    /\ ret' = [ret EXCEPT ![t] = r]
    /\ pc' = [pc EXCEPT ![t] = "idle"]
    /\ call' = [call EXCEPT ![t] = NoCall]

\* lines 286-295 and 402-411: the connection a call works on. With self.conn
\* None it opens its own and applies the security settings, both before the
\* try statement
Begin(t, op) ==
    /\ phase = "up"
    /\ pc[t] = "idle"
    /\ ncalls < MaxCalls
    /\ ncalls' = ncalls + 1
    /\ LET id == ncalls + 1
           hid == Len(handles) + 1
           h == NewHandle(db_path, read_only, id)
       IN  IF conn # 0
           THEN /\ call' = [call EXCEPT ![t] = [NoCall EXCEPT !.id = id, !.op = op, !.conn = conn]]
                /\ pc' = [pc EXCEPT ![t] = "acquired"]
                /\ UNCHANGED <<handles, files, ret>>
           ELSE \E fault \in {"none", "connect", "security"} :
                  IF ConnectFails(files, db_path, read_only, fault)
                  THEN /\ Finish(t, [Return(op, id, 0, Raise(EngineError, "connect failed"))
                                        EXCEPT !.engine = "connect"])
                       /\ UNCHANGED <<handles, files>>
                  ELSE IF cfg.secure_mode /\ fault = "security"
                  THEN /\ Finish(t, [Return(op, id, hid, Raise(EngineError, "SET failed"))
                                        EXCEPT !.engine = "security"])
                       /\ handles' = Append(handles, Ran(h, "SET failed"))
                       /\ files' = FilesAfterConnect(files, db_path, read_only)
                  ELSE /\ handles' = Append(handles, ApplySecuritySettings(h, cfg.secure_mode))
                       /\ files' = FilesAfterConnect(files, db_path, read_only)
                       /\ call' = [call EXCEPT ![t] = [NoCall EXCEPT !.id = id, !.op = op, !.conn = hid]]
                       /\ pc' = [pc EXCEPT ![t] = "acquired"]
                       /\ UNCHANGED ret
    /\ UNCHANGED <<cfg, callers, phase, db_path, db_type, read_only, conn, timers, hits,
                   ctorErr, acq, lim>>

UsesTimer_NonNegative(t) == call[t].op = "query" /\ cfg.query_timeout >= 0

\* lines 299-302: whether the call of t goes through _execute_with_timeout
UsesTimer(t) == call[t].op = "query" /\ cfg.query_timeout > 0

\* lines 369-370: timer = threading.Timer(self._query_timeout, conn.interrupt);
\* timer.start(). Only query takes this path, and only with a timeout > 0
StartTimer(t) ==
    /\ pc[t] = "acquired"
    /\ UsesTimer(t)
    /\ timers' = [timers EXCEPT ![call[t].id] =
                     [st |-> "waiting", handle |-> call[t].conn, finished |-> FALSE]]
    /\ pc' = [pc EXCEPT ![t] = "timed"]
    /\ UNCHANGED <<cfg, callers, phase, db_path, db_type, read_only, conn, handles, files,
                   call, ret, ncalls, hits, ctorErr, acq, lim>>

\* conn.execute(query) starts: the connection runs one statement at a time
\* (a second thread waits for it), and a new statement clears a pending interrupt
EngineStart(t) ==
    /\ \/ pc[t] = "timed"
       \/ pc[t] = "acquired" /\ ~UsesTimer(t)
    /\ handles[call[t].conn].serving = 0
    /\ handles' = [handles EXCEPT ![call[t].conn].serving = call[t].id,
                                  ![call[t].conn].interrupted = FALSE]
    /\ pc' = [pc EXCEPT ![t] = "running"]
    /\ UNCHANGED <<cfg, callers, phase, db_path, db_type, read_only, conn, files,
                   call, ret, timers, ncalls, hits, ctorErr, acq, lim>>

\* what conn.execute can do on handle h: succeed, raise an engine error, or
\* raise InterruptException once an interrupt reached the statement; on a
\* closed connection it raises
Happenings(h) ==
    IF ~h.open THEN {"error"}
    ELSE IF h.interrupted THEN {"ok", "error", "interrupt"}
    ELSE {"ok", "error"}

TimerCancel_OnSuccessOnly(ts, id, happened) ==
    IF happened = "ok" THEN [ts EXCEPT ![id].finished = TRUE] ELSE ts

\* line 380: finally: timer.cancel(), whatever happened
TimerCancel(ts, id, happened) == [ts EXCEPT ![id].finished = TRUE]

\* lines 339-342 and 419-421: finally: if self.conn is None: conn.close(),
\* with self.conn read at that moment
CloseIfTemporary(hs, cn, hid) ==
    IF cn = 0 THEN [hs EXCEPT ![hid].open = FALSE] ELSE hs

\* the body of the call for what happened in the engine
Body(t, path, happened) ==
    IF call[t].op = "raw" THEN ExecuteRawBody(path, happened)
    ELSE IF cfg.query_timeout > 0 THEN ExecuteWithTimeout(cfg, path, happened)
    ELSE ExecuteWithoutTimeout(cfg, path, happened)

\* conn.execute returns or raises, and the call runs to its end: the result is
\* built, the timer cancelled, the temporary connection closed
EngineEnd(t, happened) ==
    /\ pc[t] = "running"
    /\ happened \in Happenings(handles[call[t].conn])
    /\ LET id == call[t].id
           hid == call[t].conn
           released == [handles EXCEPT ![hid].serving = 0, ![hid].interrupted = FALSE]
       IN  /\ timers' = IF UsesTimer(t) THEN TimerCancel(timers, id, happened) ELSE timers
           /\ handles' = CloseIfTemporary(released, conn, hid)
           /\ Finish(t, [Return(call[t].op, id, hid, Body(t, handles[hid].path, happened))
                            EXCEPT !.engine = happened])
    /\ UNCHANGED <<cfg, callers, phase, db_path, db_type, read_only, conn, files,
                   ncalls, hits, ctorErr, acq, lim>>

\* threading.Timer.run: self.finished.wait(interval) is over; the function is
\* called only if the timer was not cancelled by then
TimerWake(k) ==
    /\ timers[k].st = "waiting"
    /\ timers' = [timers EXCEPT ![k].st = IF timers[k].finished THEN "done" ELSE "firing"]
    /\ UNCHANGED <<cfg, callers, phase, db_path, db_type, read_only, conn, handles, files,
                   pc, call, ret, ncalls, hits, ctorErr, acq, lim>>

\* threading.Timer.run, past the test: conn.interrupt() on the connection the
\* timer was made for; it stops the statement that runs there now, if any
TimerFire(k) ==
    /\ timers[k].st = "firing"
    /\ LET hid == timers[k].handle
           running == handles[hid].open /\ handles[hid].serving # 0
       IN  /\ handles' = IF running THEN [handles EXCEPT ![hid].interrupted = TRUE]
                         ELSE handles
           /\ hits' = IF running THEN hits \cup {<<k, handles[hid].serving>>} ELSE hits
    /\ timers' = [timers EXCEPT ![k].st = "done", ![k].finished = TRUE]
    /\ UNCHANGED <<cfg, callers, phase, db_path, db_type, read_only, conn, files,
                   pc, call, ret, ncalls, ctorErr, acq, lim>>

\* the switch_database_connection tool, server_read_only being the mode the
\* server was started in
SwitchDatabaseConnection(t, path, create_if_not_exists) ==
    /\ phase = "up"
    /\ pc[t] = "idle"
    /\ ncalls < MaxCalls
    /\ ncalls' = ncalls + 1
    /\ LET id == ncalls + 1
           server_read_only == cfg.arg_read_only
           refusal == SwitchRefusal(path, files, server_read_only, create_if_not_exists)
           effective_read_only == EffectiveReadOnly(path, server_read_only)
           warning == SwitchWarning(path, server_read_only)
       IN  IF refusal # ""
           THEN /\ ret' = [ret EXCEPT ![t] =
                              SwitchFailure(id, path, refusal, SwitchRefusalMessage(refusal, path))]
                /\ UNCHANGED <<db_path, db_type, read_only, conn, handles, files, acq>>
           ELSE \E env \in EnvsFor(SwitchDbType(path)) :
                  \E sw \in {SwitchDatabase(cfg, handles, files, conn, path,
                                            effective_read_only, env)} :
                      /\ db_path' = sw.db_path
                      /\ db_type' = sw.db_type
                      /\ read_only' = sw.read_only
                      /\ handles' = sw.handles
                      /\ files' = sw.files
                      /\ conn' = sw.conn
                      /\ acq' = AcqRecord(path, sw.db_type, effective_read_only, env,
                                          Len(handles),
                                          [handles |-> sw.handles, conn |-> sw.conn,
                                           err |-> sw.err])
                      /\ ret' = [ret EXCEPT ![t] =
                                   IF sw.err = NoError
                                   THEN SwitchSuccess(id, path, db_path,
                                                      effective_read_only, warning)
                                   ELSE SwitchFailure(id, path, sw.err.type, sw.err.msg)]
    /\ UNCHANGED <<cfg, callers, phase, pc, call, timers, hits, ctorErr, lim>>

\* startup and queries: one client, called by one thread, no query timeout
Next ==
    \/ Construct
    \/ \E t \in callers : Begin(t, "query")
    \/ \E t \in callers : Begin(t, "raw")
    \/ \E t \in callers : EngineStart(t)
    \/ \E t \in callers, happened \in {"ok", "error"} : EngineEnd(t, happened)

Spec == Init /\ [][Next]_vars

\* the constructor arguments of the switching specification: Security Policy
\* and Init SQL both on or both off, per-call connections on or off where the
\* server is read-only (a read-write server never uses them)
SwitchConfigs ==
    { c \in Configs :
        /\ c.arg_path \in {MemoryPath, DataFile, MdPath}
        /\ c.init_sql = c.secure_mode
        /\ StartsWith(c.arg_path, "md:") => c.token # ""
        /\ c.env_token = "" /\ ~c.saas_mode
        /\ ~c.arg_read_only => c.ephemeral_connections }

InitSwitch == \E c \in SwitchConfigs : BeforeInit(c, {"t1"})

\* live reconfiguration: the same client with the switch tool
NextSwitch ==
    \/ Construct
    \/ \E t \in callers : Begin(t, "query")
    \/ \E t \in callers : Begin(t, "raw")
    \/ \E t \in callers : EngineStart(t)
    \/ \E t \in callers, happened \in {"ok", "error"} : EngineEnd(t, happened)
    \/ \E t \in callers, path \in SwitchPaths, create \in BOOLEAN :
          SwitchDatabaseConnection(t, path, create)

SpecSwitch == InitSwitch /\ [][NextSwitch]_vars

\* the defaults of the command line, on an in-memory database
BaseConfig ==
    [max_rows |-> 1024, max_chars |-> 50000, query_timeout |-> -1,
     secure_mode |-> FALSE, init_sql |-> FALSE, ephemeral_connections |-> TRUE,
     arg_path |-> <<":memory:">>, arg_read_only |-> FALSE,
     token |-> "", env_token |-> "", saas_mode |-> FALSE]

\* persistent and per-call connections, with and without a query timeout
RaceConfigs ==
    { [BaseConfig EXCEPT !.arg_path = p, !.arg_read_only = (p = DataFile),
                         !.query_timeout = s] :
        p \in {MemoryPath, DataFile}, s \in TimeoutValues }

InitRace == \E c \in RaceConfigs : BeforeInit(c, Threads)

\* two threads calling query and execute_raw, and the timer threads
NextRace ==
    \/ Construct
    \/ \E t \in callers : Begin(t, "query")
    \/ \E t \in callers : Begin(t, "raw")
    \/ \E t \in callers : StartTimer(t)
    \/ \E t \in callers : EngineStart(t)
    \/ \E t \in callers, happened \in {"ok", "error", "interrupt"} : EngineEnd(t, happened)
    \/ \E k \in 1..MaxCalls : TimerWake(k)
    \/ \E k \in 1..MaxCalls : TimerFire(k)

SpecRace == InitRace /\ [][NextRace]_vars



----------------------------------------------------------------------------
(* A switch running beside the calls of another thread *)

\* switch_database_connection up to the point where switch_database has closed
\* the existing connection and set self.conn = None (lines 68-109 of the tool,
\* 434-440 of the client). The callers serialize their switches, so no other
\* switch is under way
SwitchEnter(t, path, create_if_not_exists) ==
    /\ phase = "up"
    /\ pc[t] = "idle"
    /\ \A u \in callers : call[u].op # "switch"
    /\ ncalls < MaxCalls
    /\ ncalls' = ncalls + 1
    /\ LET id == ncalls + 1
           server_read_only == cfg.arg_read_only
           refusal == SwitchRefusal(path, files, server_read_only, create_if_not_exists)
       IN  IF refusal # ""
           THEN /\ ret' = [ret EXCEPT ![t] =
                              SwitchFailure(id, path, refusal, SwitchRefusalMessage(refusal, path))]
                /\ UNCHANGED <<conn, handles, pc, call>>
           ELSE /\ call' = [call EXCEPT ![t] =
                               [NoCall EXCEPT !.id = id, !.op = "switch", !.arg = path,
                                              !.ro = EffectiveReadOnly(path, server_read_only),
                                              !.previous = db_path]]
                /\ handles' = CloseExisting(handles, conn)
                /\ conn' = 0
                /\ pc' = [pc EXCEPT ![t] = "closed"]
                /\ UNCHANGED ret
    /\ UNCHANGED <<cfg, callers, phase, db_path, db_type, read_only, files, timers, hits,
                   ctorErr, acq, lim>>

\* line 443: self.db_path = path
SwitchSetPath(t) ==
    /\ pc[t] = "closed"
    /\ db_path' = call[t].arg
    /\ pc' = [pc EXCEPT ![t] = "path set"]
    /\ UNCHANGED <<cfg, callers, phase, db_type, read_only, conn, handles, files, call, ret,
                   timers, ncalls, hits, ctorErr, acq, lim>>

\* line 444: self._read_only = read_only
SwitchSetReadOnly(t) ==
    /\ pc[t] = "path set"
    /\ read_only' = call[t].ro
    /\ pc' = [pc EXCEPT ![t] = "mode set"]
    /\ UNCHANGED <<cfg, callers, phase, db_path, db_type, conn, handles, files, call, ret,
                   timers, ncalls, hits, ctorErr, acq, lim>>

\* lines 446-457 and the rest of the tool: self.db_type is set, self.conn =
\* self._initialize_connection(), and the tool returns its payload
SwitchReopen(t) ==
    /\ pc[t] = "mode set"
    /\ LET id == call[t].id
           path == call[t].arg
           type == SwitchDbType(path)
       IN  \E env \in EnvsFor(type) :
             \E a \in {InitializeConnection(cfg, handles, files, db_path, type,
                                            read_only, env)} :
                 /\ db_type' = type
                 /\ handles' = a.handles
                 /\ files' = a.files
                 /\ conn' = a.conn
                 /\ acq' = AcqRecord(db_path, type, read_only, env, Len(handles), a)
                 /\ Finish(t, IF a.err = NoError
                              THEN SwitchSuccess(id, path, call[t].previous, call[t].ro,
                                                 SwitchWarning(path, cfg.arg_read_only))
                              ELSE SwitchFailure(id, path, a.err.type, a.err.msg))
    /\ UNCHANGED <<cfg, callers, phase, db_path, read_only, timers, ncalls, hits,
                   ctorErr, lim>>

\* the targets of the switches beside other calls
LivePaths == {MemoryPath, DataFile}

\* a read-only server on an existing file, with per-call connections or a kept one
LiveConfigs ==
    { [BaseConfig EXCEPT !.arg_path = DataFile, !.arg_read_only = TRUE,
                         !.ephemeral_connections = e] : e \in BOOLEAN }

\* nothing goes wrong in the engine
QuietEnv == Env("none", "ok", <<>>, "ok")

\* the client of DatabaseClient(c) after switch_database_connection(path), both
\* without an engine fault and with no call under way: the state Construct and
\* SwitchDatabaseConnection lead to, the calls counted from here
AfterSwitch(c, who, path) ==
    \E r \in {ResolveDbPathType(c.arg_path, c.token, c.saas_mode, c.env_token)} :
      \E a \in {InitializeConnection(c, <<>>, {DataFile}, r.path, r.type,
                                     c.arg_read_only, QuietEnv)} :
        \E sw \in {SwitchDatabase(c, a.handles, a.files, a.conn, path,
                                  EffectiveReadOnly(path, c.arg_read_only), QuietEnv)} :
            /\ cfg = c
            /\ callers = who
            /\ phase = "up"
            /\ db_path = sw.db_path
            /\ db_type = sw.db_type
            /\ read_only = sw.read_only
            /\ conn = sw.conn
            /\ handles = sw.handles
            /\ files = sw.files
            /\ pc = [t \in Threads |-> "idle"]
            /\ call = [t \in Threads |-> NoCall]
            /\ ret = [t \in Threads |-> NoRet]
            /\ timers = [k \in 1..MaxCalls |-> NoTimer]
            /\ ncalls = 0
            /\ hits = {}
            /\ ctorErr = NoError
            /\ acq = AcqRecord(path, sw.db_type, sw.read_only, QuietEnv, Len(a.handles),
                               [handles |-> sw.handles, conn |-> sw.conn, err |-> sw.err])
            /\ lim = LimIdle

\* the client before its construction, or as an earlier switch to the
\* in-memory database left it
InitLive ==
    \E c \in LiveConfigs :
        \/ BeforeInit(c, Threads)
        \/ AfterSwitch(c, Threads, MemoryPath)

\* two threads: queries and raw statements beside a switch that goes through
\* switch_database one assignment at a time
NextLive ==
    \/ Construct
    \/ \E t \in callers : Begin(t, "query")
    \/ \E t \in callers : Begin(t, "raw")
    \/ \E t \in callers : EngineStart(t)
    \/ \E t \in callers, happened \in {"ok", "error"} : EngineEnd(t, happened)
    \/ \E t \in callers, path \in LivePaths, create \in BOOLEAN : SwitchEnter(t, path, create)
    \/ \E t \in callers : SwitchSetPath(t)
    \/ \E t \in callers : SwitchSetReadOnly(t)
    \/ \E t \in callers : SwitchReopen(t)

SpecLive == InitLive /\ [][NextLive]_vars

----------------------------------------------------------------------------

(* The list_databases tool *)

\* SQL NULL in a row
Null == "<NULL>"

\* the rows <<alias, type>> of MD_ALL_DATABASES() on a MotherDuck session
MdAllDatabases ==
    << <<"db", "motherduck">>, <<"sample_data", "motherduck share">>,
       <<Null, "motherduck">>, <<"system", "duckdb">>, <<"temp", "duckdb">> >>

\* the rows <<database_name, type>> of duckdb_databases() on a connection to
\* the target
DuckdbDatabases(path) ==
    (IF CloudPrefixed(path) THEN << <<"db", "motherduck">> >>
     ELSE IF StartsWith(path, "s3://") THEN << <<"memory", "duckdb">>, <<"s3db", "duckdb">> >>
     ELSE IF path = MemoryPath THEN << <<"memory", "duckdb">> >>
     ELSE << <<"data", "duckdb">> >>)
    \o << <<"system", "duckdb">>, <<"temp", "duckdb">> >>

\* WHERE alias IS NOT NULL AND alias NOT IN ('system', 'temp')
MdProbeRows == SelectSeq(MdAllDatabases, LAMBDA r : r[1] # Null /\ r[1] \notin {"system", "temp"})

\* WHERE database_name NOT IN ('system', 'temp')
GenericRows(path) == SelectSeq(DuckdbDatabases(path), LAMBDA r : r[1] \notin {"system", "temp"})

\* what conn.execute can do with the MD_ALL_DATABASES() statement on handle h:
\* the function exists on MotherDuck sessions only
ProbeHappenings(h) ==
    IF ~h.open \/ ~CloudPrefixed(h.path) THEN {"error"} ELSE {"ok", "error"}

\* [{"name": row[0], "type": row[1]} for row in rows]
Databases(rows) == [i \in 1..Len(rows) |-> [name |-> rows[i][1], type |-> rows[i][2]]]

\* execute_raw(statement) run to its end by the only caller: rows is what the
\* statement yields, fault what goes wrong while the call gets its connection,
\* happened what conn.execute does
ExecuteRawCall(c, hs, fs, cn, path, ro, id, rows, fault, happened) ==
    LET h == NewHandle(path, ro, id)
        ran == [success |-> TRUE, columns |-> <<"name", "type">>,
                columnTypes |-> <<"VARCHAR", "VARCHAR">>, rows |-> rows,
                rowCount |-> Len(rows), truncated |-> FALSE, warning |-> ""]
    IN  IF cn # 0
        THEN [handles |-> hs, files |-> fs,
              out |-> IF happened = "ok" /\ hs[cn].open THEN Value(ran)
                      ELSE EngineException("error")]
        ELSE IF ConnectFails(fs, path, ro, fault)
        THEN [handles |-> hs, files |-> fs, out |-> Raise(EngineError, "connect failed")]
        ELSE IF c.secure_mode /\ fault = "security"
        THEN [handles |-> Append(hs, Ran(h, "SET failed")),
              files |-> FilesAfterConnect(fs, path, ro),
              out |-> Raise(EngineError, "SET failed")]
        ELSE [handles |-> Append(hs, [ApplySecuritySettings(h, c.secure_mode)
                                         EXCEPT !.open = FALSE]),
              files |-> FilesAfterConnect(fs, path, ro),
              out |-> IF happened = "ok" THEN Value(ran) ELSE EngineException("error")]

\* the payloads of the tool
ListSuccess(id, databases) ==
    [NoRet EXCEPT !.call = id, !.op = "list_databases", !.kind = "returned",
                  !.success = TRUE, !.databases = databases,
                  !.databaseCount = Len(databases)]

ListFailure(id, exc) ==
    [NoRet EXCEPT !.call = id, !.op = "list_databases", !.kind = "returned",
                  !.error = exc.msg, !.errorType = exc.type]

ListDatabasesResult_NoFallback(id, probe, fallback) ==
    IF probe.type = "" THEN ListSuccess(id, Databases(probe.result.rows))
    ELSE ListFailure(id, probe)

\* lines 25-52: the inner try / except Exception around the MotherDuck
\* statement, the outer one around the fallback
ListDatabasesResult(id, probe, fallback) ==
    IF probe.type = "" THEN ListSuccess(id, Databases(probe.result.rows))
    ELSE IF fallback.type = "" THEN ListSuccess(id, Databases(fallback.result.rows))
    ELSE ListFailure(id, fallback)

\* the list_databases tool: m is what happens to the MD_ALL_DATABASES()
\* statement, g what happens to the duckdb_databases() one if it is run; the
\* engine field of ret keeps which of the two statements ran or raised
ListDatabases(t, m, g) ==
    /\ phase = "up"
    /\ pc[t] = "idle"
    /\ ncalls < MaxCalls
    /\ ncalls' = ncalls + 1
    /\ conn # 0 => m.happened \in ProbeHappenings(handles[conn])
    /\ conn = 0 => m.happened \in ProbeHappenings(NewHandle(db_path, read_only, 0))
    /\ \E first \in {ExecuteRawCall(cfg, handles, files, conn, db_path, read_only,
                                    ncalls + 1, MdProbeRows, m.fault, m.happened)} :
         IF first.out.type = ""
         THEN /\ handles' = first.handles
              /\ files' = first.files
              /\ ret' = [ret EXCEPT ![t] =
                            [ListDatabasesResult(ncalls + 1, first.out, first.out)
                                EXCEPT !.engine = "probe ran"]]
         ELSE \E second \in {ExecuteRawCall(cfg, first.handles, first.files, conn, db_path,
                                            read_only, ncalls + 1, GenericRows(db_path),
                                            g.fault, g.happened)} :
                /\ handles' = second.handles
                /\ files' = second.files
                /\ ret' = [ret EXCEPT ![t] =
                              [ListDatabasesResult(ncalls + 1, first.out, second.out)
                                  EXCEPT !.engine = IF second.out.type = ""
                                                    THEN "probe failed, fallback ran"
                                                    ELSE "probe failed, fallback failed"]]
    /\ UNCHANGED <<cfg, callers, phase, db_path, db_type, read_only, conn, pc, call,
                   timers, hits, ctorErr, acq, lim>>

\* what can happen to one statement of the tool
StatementFates == [fault : {"none", "connect", "security"}, happened : {"ok", "error"}]

InitCatalog == \E c \in Configs : BeforeInit(c, {"t1"})

\* startup and the catalog tool, one caller
NextCatalog ==
    \/ Construct
    \/ \E t \in callers, m, g \in StatementFates : ListDatabases(t, m, g)

SpecCatalog == InitCatalog /\ [][NextCatalog]_vars

----------------------------------------------------------------------------
(* The limits specification: _execute on a statement that ran, one loop      *)
(* iteration per step                                                        *)

\* the default of --max-rows
DefaultMaxRows == 1024

MaxRowsValues == {-1, 0, 1, 3, 11, DefaultMaxRows}

MaxCharsValues == {100, 150, 200, 50000}

CellValues == {7, 12345}

InitLimits ==
    \E mr \in MaxRowsValues, mc \in MaxCharsValues :
        BeforeInit([BaseConfig EXCEPT !.max_rows = mr, !.max_chars = mc], {})

\* conn.execute succeeded with n rows of one BIGINT column; _execute_direct
\* fetches them and _execute builds the result dict
LimExecute(n, v) ==
    /\ lim.pc = "idle"
    /\ LET eng == EngineResult(LimColumns, LimTypes, [i \in 1..n |-> <<v>>])
           d == ExecuteDirect(eng, cfg.max_rows)
       IN  lim' = [pc |-> "loop", yielded |-> n, iters |-> 0, before |-> Len(d.rows),
                   result |-> BuildResult(d, cfg.max_rows)]
    /\ UNCHANGED <<cfg, clientVars>>

\* one pass through the body of the while loop
LimShrink ==
    /\ lim.pc = "loop"
    /\ NeedsShrink(lim.result, cfg.max_chars)
    /\ lim' = [lim EXCEPT !.result = ShrinkStep(lim.result, cfg.max_chars),
                          !.iters = lim.iters + 1,
                          !.before = Len(lim.result.rows)]
    /\ UNCHANGED <<cfg, clientVars>>

\* the loop condition is false: return result
LimReturn ==
    /\ lim.pc = "loop"
    /\ ~NeedsShrink(lim.result, cfg.max_chars)
    /\ lim' = [lim EXCEPT !.pc = "returned"]
    /\ UNCHANGED <<cfg, clientVars>>

\* the row counts of the statements: the small ones, and a result that fills
\* the default --max-rows
ResultSizes == 0..MaxResultRows \cup {DefaultMaxRows}

NextLimits ==
    \/ \E n \in ResultSizes, v \in CellValues : LimExecute(n, v)
    \/ LimShrink
    \/ LimReturn

SpecLimits == InitLimits /\ [][NextLimits]_vars

----------------------------------------------------------------------------
(* Claims about the row and character limits (SpecLimits) *)

LimReturned == lim.pc = "returned"

\* C3, as stated (read at the row limits N >= 0): for every row_limit N and
\* every query that yields more than N rows, the result has exactly N rows,
\* truncated = true and a non-empty warning.
C3_ExactlyNRows ==
    (LimReturned /\ cfg.max_rows >= 0 /\ lim.yielded > cfg.max_rows)
        => /\ Len(lim.result.rows) = cfg.max_rows
           /\ lim.result.truncated
           /\ lim.result.warning # ""

\* C3, amended: for every row_limit N >= 0 and every query that yields more
\* than N rows, the result is truncated with a non-empty warning and has at
\* most N rows: exactly N when the character limit removed none.
C3_RowLimitTruncates ==
    (LimReturned /\ cfg.max_rows >= 0 /\ lim.yielded > cfg.max_rows)
        => /\ lim.result.truncated
           /\ lim.result.warning # ""
           /\ Len(lim.result.rows) <= cfg.max_rows
           /\ (lim.iters = 0 => Len(lim.result.rows) = cfg.max_rows)

C3_Witness ==
    /\ LimReturned
    /\ cfg.max_rows >= 1
    /\ lim.yielded > cfg.max_rows
    /\ lim.iters = 0
    /\ Len(lim.result.rows) = cfg.max_rows
    /\ lim.result.warning = RowLimitWarning(cfg.max_rows)

\* C4, as stated: every successful result has len(rows) <= row_limit, for
\* every configured row_limit.
C4_RowsWithinAnyLimit ==
    LimReturned => Len(lim.result.rows) <= cfg.max_rows

\* C4, amended: every successful result has len(rows) <= row_limit, for every
\* configured row_limit >= 0.
C4_RowsWithinLimit ==
    (LimReturned /\ cfg.max_rows >= 0) => Len(lim.result.rows) <= cfg.max_rows

C4_Witness ==
    /\ LimReturned
    /\ cfg.max_rows = 1
    /\ lim.yielded >= 3
    /\ Len(lim.result.rows) = 1

\* C5, as stated (read at the row limits N >= 0): every successful result has
\* a serialized size <= char_limit.
C5_SizeWithinCharLimit ==
    (LimReturned /\ cfg.max_rows >= 0) => JsonLen(lim.result) <= cfg.max_chars

\* C5, amended: every successful result has a serialized size <= char_limit,
\* or has no rows left (the columns, types and warning alone exceed the limit).
C5_SizeWithinCharLimitOrEmpty ==
    LimReturned => (JsonLen(lim.result) <= cfg.max_chars \/ lim.result.rows = <<>>)

C5_Witness ==
    /\ LimReturned
    /\ lim.iters >= 2
    /\ lim.result.rows # <<>>
    /\ lim.result.truncated
    /\ JsonLen(lim.result) <= cfg.max_chars

\* the statement yielded no more rows than the row limit
UnderRowLimit == cfg.max_rows >= lim.yielded

\* C21, as stated: for every row_limit N >= the number of rows the query
\* yields, the result has truncated absent or false.
C21_NeverTruncatedUnderRowLimit ==
    (LimReturned /\ UnderRowLimit) => ~lim.result.truncated

\* C21, amended: for every row_limit N >= the number of rows the query
\* yields, the result has all the rows and truncated absent or false, unless
\* the character limit removed rows, which sets truncated = true.
C21_TruncatedUnderRowLimitOnlyByChars ==
    (LimReturned /\ UnderRowLimit)
        => /\ lim.result.truncated <=> lim.iters > 0
           /\ lim.iters = 0 => /\ Len(lim.result.rows) = lim.yielded
                               /\ lim.result.warning = ""

\* as many rows as the limit allows, none removed, no flag
C21_Witness ==
    /\ LimReturned
    /\ cfg.max_rows = 3
    /\ lim.yielded = 3
    /\ lim.iters = 0
    /\ ~lim.result.truncated
    /\ Len(lim.result.rows) = 3

\* the loop body has just run: lim.before rows went in
Shrunk == lim.pc = "loop" /\ lim.iters > 0

\* rows the last iteration removed
Dropped == lim.before - Len(lim.result.rows)

\* ceil(n / 10)
CeilTenth(n) == (n + 9) \div 10

\* C28, as stated: each iteration of the shrink loop drops exactly
\* ceil(len(rows) / 10) rows from the end of rows.
C28_DropsCeilTenth ==
    Shrunk => Dropped = CeilTenth(lim.before)

\* C28, amended: each iteration of the shrink loop drops exactly
\* max(1, floor(len(rows) / 10)) rows, and rowCount follows.
C28_DropsFloorTenthAtLeastOne ==
    Shrunk => /\ Dropped = Max(1, lim.before \div 10)
              /\ lim.result.rowCount = Len(lim.result.rows)

\* eleven rows went in and ten came out, where ceil would drop two
C28_Witness ==
    /\ Shrunk
    /\ lim.before = 11
    /\ Len(lim.result.rows) = 10

\* C29, as stated: the loop terminates, at zero rows at the latest, and from
\* any row count up to the default row limit of 1024 it runs no more than
\* about 22 iterations.
C29_AtMostTwentyTwoIterations ==
    (lim.pc # "idle" /\ lim.yielded <= DefaultMaxRows) => lim.iters <= 22

\* C29, amended: every iteration leaves fewer rows than it found, so the loop
\* ends, at zero rows at the latest and after at most as many iterations as
\* there were rows; from any row count up to the default row limit of 1024
\* it runs at most 59 iterations.
C29_ShrinkLoopTerminates ==
    /\ Shrunk => Len(lim.result.rows) < lim.before
    /\ (lim.pc = "loop" /\ lim.result.rows = <<>>) => ~NeedsShrink(lim.result, cfg.max_chars)
    /\ (lim.pc # "idle" /\ cfg.max_rows >= 0)
          => lim.iters + Len(lim.result.rows) <= Min(lim.yielded, cfg.max_rows)
    /\ (lim.pc # "idle" /\ lim.yielded <= DefaultMaxRows) => lim.iters <= 59

\* 1024 rows were removed down to none, in 59 iterations
C29_Witness ==
    /\ LimReturned
    /\ lim.yielded = DefaultMaxRows
    /\ cfg.max_rows = DefaultMaxRows
    /\ lim.result.rows = <<>>
    /\ lim.iters = 59

\* C30: a result over the character limit is not turned into an error: the
\* loop keeps success = true through every iteration, and what _execute
\* returns is within the limit or has no rows left, in which case the columns,
\* the types, the row count and the warning alone are over it.
C30_OversizeResultStillSucceeds ==
    /\ lim.pc # "idle" => lim.result.success
    /\ LimReturned
          => /\ lim.result.rows # <<>> => JsonLen(lim.result) <= cfg.max_chars
             /\ JsonLen(lim.result) > cfg.max_chars
                   => /\ lim.result.rows = <<>>
                      /\ lim.result.rowCount = 0

\* every row was removed and the result, still over the limit, is a success
C30_Witness ==
    /\ LimReturned
    /\ lim.iters >= 1
    /\ lim.result.success
    /\ lim.result.rows = <<>>
    /\ JsonLen(lim.result) > cfg.max_chars

\* C31: whenever the character limit removed at least one row, the returned
\* result has truncated = true and its warning is the character-limit message
\* for the rows left, whether or not the row limit had set its own warning
\* earlier in the call.
C31_CharLimitWarningReplaces ==
    (LimReturned /\ lim.iters > 0)
        => /\ lim.result.truncated
           /\ lim.result.warning = CharLimitWarning(Len(lim.result.rows), cfg.max_chars)
           /\ lim.result.warning # RowLimitWarning(cfg.max_rows)

\* the row limit cut 12 rows to 11 and set its warning, then the character
\* limit removed rows and left its own
C31_Witness ==
    /\ LimReturned
    /\ cfg.max_rows = 11
    /\ lim.yielded = 12
    /\ lim.iters > 0
    /\ lim.result.rows # <<>>
    /\ lim.result.warning = CharLimitWarning(Len(lim.result.rows), cfg.max_chars)

\* C40: in every successful query result rowCount equals len(rows), after
\* the row limit and after every iteration of the character-limit loop.
C40_RowCountIsLenRows ==
    lim.pc # "idle"
        => /\ lim.result.success
           /\ lim.result.rowCount = Len(lim.result.rows)

\* both limits cut the result and the count is that of the rows left
C40_Witness ==
    /\ LimReturned
    /\ lim.yielded > cfg.max_rows
    /\ cfg.max_rows >= 3
    /\ lim.iters >= 2
    /\ lim.result.rows # <<>>
    /\ lim.result.rowCount = Len(lim.result.rows)
    /\ lim.result.rowCount < cfg.max_rows

----------------------------------------------------------------------------
(* Connections of one call *)

\* C1 (as stated): a connection opened for one call is closed before that call
\* returns or raises, on every outcome, a failure of the security settings on
\* the fresh connection included: every open connection that a call opened
\* belongs to a call that is still running
C1_NoHandleOutlivesItsCall ==
    \A i \in 1..Len(handles) :
        (handles[i].owner # 0 /\ handles[i].open)
            => \E t \in Threads : call[t].id = handles[i].owner

\* the client is a read-only one on the local file with per-call connections
EphemeralReader ==
    /\ phase = "up"
    /\ cfg.arg_read_only /\ cfg.ephemeral_connections
    /\ db_type = "duckdb" /\ db_path = DataFile

\* C22 (as stated): a read-only client with per-call connections on a local
\* file holds a connection, and so the lock on the file, only while one of its
\* own calls runs, and none while idle: every open connection is a read-only
\* one that a call in progress is working on
C22_EphemeralReaderHoldsNoHandleWhileIdle ==
    EphemeralReader =>
        \A i \in 1..Len(handles) :
            handles[i].open
                => /\ handles[i].ro
                   /\ \E t \in callers : pc[t] # "idle" /\ call[t].conn = i

----------------------------------------------------------------------------
(* Read-scaling verification *)

\* the session ids of read-scaling sessions among DucklingIds
ReadScalingSessions == { <<"m", ".", "r", "s", ".", "3">> }

\* the last acquisition was a MotherDuck one with --read-only and got a session
ManagedCloudReadOnly == acq.type = "motherduck" /\ acq.ro /\ acq.opened # 0

ReadScalingRejection == [type |-> ValueError, msg |-> ReadScalingMessage]

----------------------------------------------------------------------------
(* Query timeout *)

\* C6: when the interrupt of the timer stops a statement of query(), query()
\* raises ValueError with the timeout message naming --query-timeout in
\* seconds, and does not return a success = False dict
C6_InterruptRaisesTimeout ==
    \A t \in Threads :
        (ret[t].op = "query" /\ ret[t].engine = "interrupt")
            => /\ ret[t].kind = "raised"
               /\ ret[t].errorType = ValueError
               /\ ret[t].error = TimeoutMessage(cfg.query_timeout)
               /\ cfg.query_timeout > 0

C6_Witness ==
    \E t \in Threads :
        /\ ret[t].op = "query" /\ ret[t].engine = "interrupt"
        /\ ret[t].error = "Query execution timed out after 2 seconds. Increase timeout with --query-timeout argument when starting the mcp server."

\* the calls that are still running
RunningCalls == { call[t].id : t \in Threads } \ {0}

\* C7: the timer of every query run with a timeout is cancelled by the time
\* the query returns or raises, whatever happened in the engine
C7_TimerCancelledOnExit ==
    \A k \in 1..MaxCalls :
        (timers[k].st # "none" /\ k \notin RunningCalls) => timers[k].finished

\* a query that ended in an engine error left its timer cancelled before the
\* timer woke up
C7_Witness ==
    \E t \in Threads :
        /\ ret[t].op = "query" /\ ret[t].engine = "error" /\ ret[t].call \notin RunningCalls
        /\ timers[ret[t].call].st = "waiting"
        /\ timers[ret[t].call].finished

\* C8 (as stated): a timer never interrupts a connection while it runs the
\* statement of another call than the one the timer was started for
C8_TimerHitsOwnQueryOnly == \A p \in hits : p[1] = p[2]

TimerStarted(k) == timers[k].st # "none"

\* the statement of the last call of t was given to the engine
Executed(t) == ret[t].engine \in {"ok", "error", "interrupt"}

\* C26: a timer is started for a query exactly when the query timeout is > 0;
\* with a timeout of -1 (or 0) no timer exists, no connection is interrupted
\* and no call ends with the timeout error; execute_raw never has a timer
C26_TimerIffPositiveTimeout ==
    /\ \A k \in 1..MaxCalls : TimerStarted(k) => cfg.query_timeout > 0
    /\ \A t \in Threads :
          /\ (call[t].op = "query" /\ pc[t] = "running")
                => (TimerStarted(call[t].id) <=> cfg.query_timeout > 0)
          /\ (ret[t].op = "query" /\ Executed(t))
                => (TimerStarted(ret[t].call) <=> cfg.query_timeout > 0)
          /\ (ret[t].op = "raw" /\ ret[t].call \notin RunningCalls)
                => ~TimerStarted(ret[t].call)
    /\ cfg.query_timeout <= 0
          => /\ hits = {}
             /\ \A i \in 1..Len(handles) : ~handles[i].interrupted
             /\ \A t \in Threads : ret[t].engine # "interrupt" /\ ret[t].errorType # ValueError

\* with the timeout disabled two queries ran to their end and no timer was made
C26_Witness ==
    /\ cfg.query_timeout = -1
    /\ \A t \in Threads : ret[t].op = "query" /\ Executed(t)
    /\ \A k \in 1..MaxCalls : ~TimerStarted(k)

----------------------------------------------------------------------------
(* Switching *)

\* C10: a switch to a relative local path returns the ValueError payload about
\* absolute paths and touches nothing: the connection in use is not closed,
\* none is opened, no acquisition runs, path, type and mode stay
C10_RelativeSwitchRefused ==
    [][\A t \in Threads :
          (ret'[t] # ret[t] /\ ret'[t].op = "switch" /\ ret'[t].arg = RelativeFile)
              => /\ ret'[t].kind = "returned"
                 /\ ~ret'[t].success
                 /\ ret'[t].errorType = ValueError
                 /\ ret'[t].error = "Relative paths are not allowed. Please use an absolute path. Got: rel.db"
                 /\ UNCHANGED <<db_path, db_type, read_only, conn, handles, files, acq>>]_vars

\* a relative path was refused while a persistent connection was open
C10_Witness ==
    /\ \E t \in Threads : ret[t].op = "switch" /\ ret[t].arg = RelativeFile
    /\ conn # 0
    /\ handles[conn].open

\* the tool returned a failure payload of the given class to t and touched
\* nothing of the client
SwitchRefusedUntouched(t, errorType) ==
    /\ ret'[t].op = "switch"
    /\ ret'[t].kind = "returned"
    /\ ~ret'[t].success
    /\ ret'[t].errorType = errorType
    /\ UNCHANGED <<db_path, db_type, read_only, conn, handles, files, acq>>

\* C11: a switch to a local file that does not exist is refused with
\* FileNotFoundError when create_if_not_exists is not set, and with
\* PermissionError when it is set and the server runs read-only; in both cases
\* no connection is closed or opened and path, type and mode stay
C11_MissingFileRefused ==
    [][\A t \in Threads, create \in BOOLEAN :
          (SwitchDatabaseConnection(t, NewFile, create) /\ NewFile \notin files)
              => IF ~create THEN SwitchRefusedUntouched(t, "FileNotFoundError")
                 ELSE cfg.arg_read_only => SwitchRefusedUntouched(t, "PermissionError")]_vars

\* creating a file was refused by a read-only server holding an open connection
C11_Witness ==
    /\ \E t \in Threads :
          /\ ret[t].op = "switch" /\ ret[t].arg = NewFile
          /\ ret[t].errorType = "PermissionError"
    /\ cfg.arg_read_only
    /\ conn # 0
    /\ handles[conn].open

\* C12: a successful switch to ":memory:" reports readOnly = false, with the
\* warning present exactly when the server is read-only; a successful switch to
\* any other target reports the mode of the server and no warning
C12_EffectiveReadOnlyReported ==
    \A t \in Threads :
        (ret[t].op = "switch" /\ ret[t].success)
            => IF ret[t].arg = <<":memory:">>
               THEN /\ ~ret[t].switch.readOnly
                    /\ ret[t].switch.warning # "" <=> cfg.arg_read_only
               ELSE /\ ret[t].switch.readOnly = cfg.arg_read_only
                    /\ ret[t].switch.warning = ""

\* a read-only server switched to ":memory:" and warned
C12_Witness ==
    \E t \in Threads :
        /\ ret[t].op = "switch" /\ ret[t].success /\ ret[t].arg = <<":memory:">>
        /\ cfg.arg_read_only
        /\ ret[t].switch.warning = "In-memory databases cannot be read-only (DuckDB limitation)"
        /\ ~read_only

\* the step is a successful switch returning to t
SwitchSucceeds(t) == ret'[t] # ret[t] /\ ret'[t].op = "switch" /\ ret'[t].success

\* a statement runs for t, the last thing t got back being a successful switch
QueryAfterSwitch(t) == pc[t] = "running" /\ ret[t].op = "switch" /\ ret[t].success

SwitchedToPersistent ==
    /\ \E t \in Threads : ret[t].op = "switch" /\ ret[t].success
    /\ conn # 0

\* C14 (as stated): the connection a switch opens for the new target gets
\* neither the security settings nor the init SQL
C14_SwitchAppliesNeither ==
    SwitchedToPersistent => (~handles[conn].secured /\ ~handles[conn].inited)

\* C14 (amended): the persistent connection a switch opens has the security
\* settings applied exactly when secure mode is on and the init SQL run exactly
\* when one is configured, as at startup
C14_SwitchAppliesBoth ==
    SwitchedToPersistent
        => /\ handles[conn].secured = cfg.secure_mode
           /\ handles[conn].inited = cfg.init_sql

\* a switch under secure mode with init SQL left a secured, initialised connection
C14_Witness ==
    /\ SwitchedToPersistent
    /\ cfg.secure_mode /\ cfg.init_sql
    /\ handles[conn].secured /\ handles[conn].inited

----------------------------------------------------------------------------
(* Startup *)

\* stmt is among what the client ran on h to set it up
Logged(h, stmt) == \E i \in 1..Len(h.log) : h.log[i] = stmt

\* C15: when the init SQL fails during construction, the constructor raises
\* ValueError "Init SQL execution failed", no connection is kept and no client
\* exists to take a call
C15_InitSqlFailureAbortsConstruction ==
    (\E i \in 1..Len(handles) : Logged(handles[i], "init_sql failed"))
        => /\ phase = "failed"
           /\ ctorErr = [type |-> "ValueError", msg |-> "Init SQL execution failed: "]
           /\ conn = 0
           /\ ncalls = 0
           /\ \A t \in Threads : pc[t] = "idle" /\ ret[t].kind = "none"

\* the init SQL failed on the connection of a writable local file
C15_Witness ==
    /\ phase = "failed"
    /\ cfg.init_sql
    /\ cfg.arg_path = <<"/", "data.db">>
    /\ \E i \in 1..Len(handles) : Logged(handles[i], "init_sql failed")

\* the security settings, if enabled, and then the init SQL, if configured,
\* have run on h, in that order
SecuredThenInited(h) ==
    /\ cfg.secure_mode => Logged(h, "SET")
    /\ cfg.init_sql => Logged(h, "init_sql")
    /\ \A i, j \in 1..Len(h.log) : (h.log[i] = "SET" /\ h.log[j] = "init_sql") => i < j

\* C16 (as stated): in every branch of _initialize_connection, the ephemeral
\* read-only one included, the connection it opened has had the security
\* settings and then the init SQL by the time it returns
C16_SecurityThenInitSqlEveryBranch ==
    (phase = "up" /\ acq.opened # 0) => SecuredThenInited(handles[acq.opened])

\* the last acquisition was for an s3:// target and got its connection
ObjectStorageAcquired == acq.type = "s3" /\ acq.opened # 0

\* an ATTACH without READ_ONLY was tried on h
CreationAttachTried(h) == Logged(h, "ATTACH") \/ Logged(h, "ATTACH failed")

\* C17: on an s3:// target the first ATTACH is READ_ONLY; the ATTACH that
\* creates is tried exactly when the READ_ONLY one failed with "database does
\* not exist" and the client is read-write, and after it; any other failure of
\* the first ATTACH and a failure of the second make the acquisition raise
C17_AttachReadOnlyFirst ==
    ObjectStorageAcquired =>
        LET h == handles[acq.opened]
            missing == Logged(h, "ATTACH READ_ONLY failed: database does not exist")
        IN  /\ CreationAttachTried(h) <=> (missing /\ ~acq.ro)
            /\ \A i \in 1..Len(h.log) :
                  h.log[i] \in {"ATTACH", "ATTACH failed"}
                      => /\ i > 1
                         /\ h.log[i - 1] = "ATTACH READ_ONLY failed: database does not exist"
            /\ Logged(h, "ATTACH READ_ONLY") => h.attach = "ro"
            /\ (\/ Logged(h, "ATTACH READ_ONLY failed")
                \/ missing /\ acq.ro
                \/ Logged(h, "ATTACH failed"))
                  => /\ acq.err.type = "duckdb.Error"
                     /\ acq.conn = 0
                     /\ phase = "failed"
            /\ (phase = "up") => h.attach \in {"ro", "rw"}
            /\ h.attach = "rw" <=> Logged(h, "ATTACH")

\* a read-write client created the missing s3 database after the READ_ONLY
\* attach failed
C17_Witness ==
    /\ ObjectStorageAcquired
    /\ phase = "up"
    /\ ~acq.ro
    /\ handles[acq.opened].attach = "rw"
    /\ Logged(handles[acq.opened], "ATTACH READ_ONLY failed: database does not exist")

----------------------------------------------------------------------------
(* Resolving the target *)

\* the constructor has returned or raised
Constructed == phase # "new"

\* no token in the argument nor in the environment
NoTokenAvailable == cfg.token = "" /\ cfg.env_token = ""

\* the constructor raised the missing-token ValueError and opened nothing
TokenRefusal ==
    /\ phase = "failed"
    /\ ctorErr = [type |-> ValueError, msg |-> TokenMissingMessage]
    /\ handles = <<>>
    /\ conn = 0

\* C18 (as stated): a client constructed on a MotherDuck path, md: or
\* motherduck:, with no token argument and no token in the environment
\* raises the configuration error and has opened no connection
C18_CloudPathWithoutTokenRefused ==
    (Constructed /\ CloudPrefixed(cfg.arg_path) /\ NoTokenAvailable) => TokenRefusal

\* the token _resolve_db_path_type has to use: the argument, else the
\* environment's
AvailableToken == IF cfg.token # "" THEN cfg.token ELSE cfg.env_token

\* C19 (as stated, for the md: prefix alone): the connection string of a
\* client constructed on an md: path with a token embeds that token and,
\* with saas_mode set, the saas flag, whichever place the token came from
C19_ConnectionStringEmbedsTokenAndSaas ==
    (Constructed /\ StartsWith(cfg.arg_path, "md:") /\ ~NoTokenAvailable)
        => /\ db_type = "motherduck"
           /\ db_path = cfg.arg_path \o <<"?motherduck_token=", AvailableToken>>
                            \o (IF cfg.saas_mode THEN <<"&saas_mode=true">> ELSE <<>>)

----------------------------------------------------------------------------
(* Catalog listing *)

\* the last call of thread t was list_databases
Listed(t) == ret[t].op = "list_databases"

\* C20: when the MD_ALL_DATABASES() statement fails, for whatever reason, and
\* the duckdb_databases() one runs, list_databases returns success with the
\* rows of the latter (system and temp left out) and their count; it returns
\* success = false only when both statements failed, with the error of the
\* second
C20_ListFallsBackToGenericCatalog ==
    \A t \in callers :
        Listed(t) =>
            /\ ret[t].engine = "probe failed, fallback ran"
                  => /\ ret[t].success
                     /\ ret[t].databases = Databases(GenericRows(db_path))
                     /\ ret[t].databaseCount = Len(GenericRows(db_path))
                     /\ \A i \in 1..Len(ret[t].databases) :
                           ret[t].databases[i].name \notin {"system", "temp"}
            /\ ~ret[t].success <=> ret[t].engine = "probe failed, fallback failed"
            /\ ~ret[t].success => ret[t].errorType # ""
            /\ ret[t].kind = "returned"

\* on a MotherDuck session the first statement failed and the listing came
\* from duckdb_databases()
C20_Witness ==
    /\ Listed("t1")
    /\ CloudPrefixed(db_path)
    /\ ret["t1"].engine = "probe failed, fallback ran"
    /\ ret["t1"].success
    /\ ret["t1"].databaseCount = 1

----------------------------------------------------------------------------
(* Access mode of the target *)

\* C23 (as stated): whenever the client's target is ":memory:", set by the
\* constructor or by a switch, the access mode the client records for it is
\* read-write
C23_InMemoryNeverReadOnly ==
    (phase = "up" /\ db_path = MemoryPath) => ~read_only

----------------------------------------------------------------------------
(* Failures of the switch tool *)

\* the exception classes the tool reports
SwitchErrorTypes == {"ValueError", "FileNotFoundError", "PermissionError", EngineError}

\* what the tool hands back in ret'[t] on a step of the tool for path: always
\* a returned value; success = false with the class and text of the refusal
\* when the path was refused, of the exception when _initialize_connection
\* raised; success = true only when the new target was acquired
SwitchOutcomeReturned(t, path, create_if_not_exists) ==
    LET r == ret'[t]
        refusal == SwitchRefusal(path, files, cfg.arg_read_only, create_if_not_exists)
    IN  /\ r.kind = "returned"
        /\ r.call = ncalls' /\ r.op = "switch" /\ r.arg = path
        /\ ~r.success => r.errorType \in SwitchErrorTypes /\ r.error # ""
        /\ IF refusal # ""
           THEN /\ ~r.success
                /\ r.errorType = refusal
                /\ r.error = SwitchRefusalMessage(refusal, path)
           ELSE /\ r.success <=> acq'.err = NoError
                /\ ~r.success => /\ r.errorType = acq'.err.type
                                 /\ r.error = acq'.err.msg

\* C24: switch_database_connection never raises: a refused path, a missing
\* file, a creation refused under read-only and a failure of
\* _initialize_connection on the new target are each returned as
\* success = false with the error text and the exception class
C24_SwitchNeverRaises ==
    [][\A t \in callers, path \in SwitchPaths, create \in BOOLEAN :
          (ret'[t].arg = path /\ ncalls' = ncalls + 1
             /\ SwitchDatabaseConnection(t, path, create))
              => SwitchOutcomeReturned(t, path, create)]_vars

\* the new target could not be acquired and the tool returned the failure
C24_Witness ==
    /\ ret["t1"].op = "switch"
    /\ ret["t1"].kind = "returned"
    /\ ~ret["t1"].success
    /\ acq.path = ret["t1"].arg
    /\ acq.err.type = EngineError
    /\ ret["t1"].errorType = EngineError
    /\ conn = 0

----------------------------------------------------------------------------
(* Object storage opened read-only *)

S3ReadOnlyMessage == "Read-only mode is not supported for S3 databases"

\* C25 (as stated): the constructor given an s3:// path with read_only = True
\* raises ValueError "Read-only mode is not supported for S3 databases"
C25_S3ReadOnlyRejected ==
    (Constructed /\ StartsWith(cfg.arg_path, "s3://") /\ cfg.arg_read_only)
        => /\ phase = "failed"
           /\ ctorErr.type = ValueError
           /\ ctorErr.msg = S3ReadOnlyMessage

----------------------------------------------------------------------------
(* What _initialize_connection returns *)

\* the last run of _initialize_connection returned
AcquireReturned == acq.path # <<>> /\ acq.err = NoError

\* the case of the claim: a local file other than ":memory:", read-only, with
\* per-call connections
SentinelCase == IsLocalFilePath(acq.path) /\ acq.ro /\ cfg.ephemeral_connections

\* _initialize_connection opened, probed and closed a connection and
\* returned None
SentinelReturned ==
    /\ acq.conn = 0
    /\ acq.opened # 0
    /\ ~handles[acq.opened].open
    /\ handles[acq.opened].log = <<"SELECT 1">>

\* _initialize_connection returned the connection it opened, which is the
\* client's and the one every call in progress works on
PersistentReturned ==
    /\ acq.conn # 0
    /\ acq.conn = acq.opened
    /\ conn = acq.conn
    /\ handles[conn].open
    /\ \A t \in callers : pc[t] # "idle" => call[t].conn = conn

\* C27 (as stated): _initialize_connection returns None, after opening,
\* probing and closing a connection, exactly when the target is a local file
\* other than ":memory:", read-only, with per-call connections; in every
\* other successful case it returns an open connection that is kept and used
\* by every call
C27_SentinelIffLocalReadOnlyEphemeral ==
    AcquireReturned
        => IF SentinelCase THEN SentinelReturned ELSE PersistentReturned

----------------------------------------------------------------------------
(* The client after a failed switch *)

\* a step of the tool for path on which _initialize_connection raised
SwitchFailsAcquiring(t, path, create) ==
    /\ ret'[t].arg = path /\ ncalls' = ncalls + 1
    /\ SwitchDatabaseConnection(t, path, create)
    /\ SwitchRefusal(path, files, cfg.arg_read_only, create) = ""
    /\ ~ret'[t].success

\* C32 (as stated): a switch that fails while acquiring the new target leaves
\* the path, the type, the access mode and the connection of the client as
\* they were, the connection still open
C32_FailedSwitchKeepsPreviousTarget ==
    [][\A t \in callers, path \in SwitchPaths, create \in BOOLEAN :
          SwitchFailsAcquiring(t, path, create)
              => /\ db_path' = db_path
                 /\ db_type' = db_type
                 /\ read_only' = read_only
                 /\ conn' = conn
                 /\ conn # 0 => handles'[conn].open]_vars

----------------------------------------------------------------------------
(* Read-only guarantees across switches *)

\* the connection the call of thread t is running its statement on
Serving(t) == handles[call[t].conn]

\* C33 (as stated): in a client started read-only, a statement of query or
\* execute_raw runs on a MotherDuck connection only if that connection passed
\* the read-scaling verification, whatever switches, failed ones included,
\* came before
C33_ReadOnlyRunsOnVerifiedSessionsOnly ==
    \A t \in callers :
        (cfg.arg_read_only /\ pc[t] = "running" /\ CloudPrefixed(Serving(t).path))
            => Serving(t).verified

----------------------------------------------------------------------------
(* Connections left by a failed acquisition *)

\* C34 (as stated): when _initialize_connection raises after it has opened a
\* connection (security settings, init SQL, ATTACH, the probe of a read-only
\* file), that connection is closed: no failed construction and no failed
\* switch leaves an open connection
C34_FailedAcquireClosesHandle ==
    (acq.err # NoError /\ acq.opened # 0) => ~handles[acq.opened].open

-----------------------------------------------------------------------------
(* The backend kind of a locator, at construction and on a switch *)

\* C38 (as stated): the kind recorded for a locator does not depend on how the
\* locator reached the client: after a successful switch to the locator the
\* client was constructed on, db_type is what _resolve_db_path_type recorded
\* for it at construction
C38_SameKindAtConstructionAndSwitch ==
    \A t \in callers :
        (/\ ret[t].op = "switch"
         /\ ret[t].success
         /\ ret[t].call = ncalls
         /\ ret[t].arg = cfg.arg_path)
        => db_type = ResolveDbPathType(cfg.arg_path, cfg.token, cfg.saas_mode,
                                       cfg.env_token).type

-----------------------------------------------------------------------------
(* What a switch response shows of the connection string *)

\* the pieces of the strings a successful switch returns as previousDatabase
\* and currentDatabase
ResponsePieces(r) ==
    {r.switch.previous[i] : i \in 1..Len(r.switch.previous)}
        \cup {r.switch.current[i] : i \in 1..Len(r.switch.current)}

\* C39 (as stated): the token of the MotherDuck connection string is in no
\* string of a switch response
C39_TokenNotInSwitchResponse ==
    \A t \in callers :
        (ret[t].op = "switch" /\ ret[t].success /\ cfg.token # "")
        => cfg.token \notin ResponsePieces(ret[t])

-----------------------------------------------------------------------------
(* Secure mode on every connection that serves a call *)

\* C37: with secure mode on, the connection a call of query or execute_raw
\* holds, the kept one or one it opened for itself, has had the security
\* settings applied, at startup and after any switches
C37_SecureModeOnEveryServingHandle ==
    cfg.secure_mode =>
        \A t \in callers : call[t].conn # 0 => Serving(t).secured

\* after a successful switch a statement runs on a connection the call opened
\* for itself, with the settings applied
C37_Witness ==
    \E t \in callers :
        /\ cfg.secure_mode
        /\ pc[t] = "running"
        /\ ret[t].op = "switch" /\ ret[t].success
        /\ Serving(t).owner = call[t].id
        /\ Serving(t).secured

-----------------------------------------------------------------------------
(* Calls that run while a switch is under way *)

\* the connection gives write access to a file, a MotherDuck database or an
\* s3 database
WritableTarget(h) ==
    IF StartsWith(h.path, "s3://") THEN h.attach = "rw"
    ELSE h.path # MemoryPath /\ ~h.ro

\* C35 (as stated): on a server started read-only no connection to a file, a
\* MotherDuck database or an s3 database is ever opened writable, by a switch
\* or by a call, a call that reads self.db_path and self._read_only while
\* switch_database is assigning them included
C35_ReadOnlyServerOpensNothingWritable ==
    cfg.arg_read_only =>
        \A i \in 1..Len(handles) : ~WritableTarget(handles[i])

\* C36 (as stated): when the statement of a call has ended, the finally block
\* closes the connection the call opened for itself, and changes no other
\* connection, whatever a switch did to self.conn since the call began
C36_CleanupClosesOwnHandleOnly ==
    [][\A t \in callers :
          (pc[t] = "running" /\ pc'[t] = "idle")
          => /\ Len(handles') = Len(handles)
             /\ \A i \in 1..Len(handles) :
                  IF i = call[t].conn /\ handles[i].owner = call[t].id
                  THEN ~handles'[i].open
                  ELSE handles'[i].open = handles[i].open]_vars

====
